---------------------------- MODULE Spec2Model ----------------------------
(***************************************************************************)
(* A model of refwrap/phenix.py: the parameter record PhenixParams and its *)
(* flag formatter, the R-value extraction of RefinementStats, and the one  *)
(* operation phenixrefine, which runs phenix.refine in a temporary         *)
(* directory and reads the three files it leaves there.                    *)
(*                                                                         *)
(* Text is a sequence of characters, so that the regular expression of     *)
(* extract_r_values is matched character by character. A character is a    *)
(* one-character string; a character beyond U+00FF, which a string here    *)
(* cannot hold, is the string of its Python escape ("\\u2028").             *)
(* A float is the exact decimal it is parsed from, <<n, k>> for n / 10^k   *)
(* with trailing zeros dropped: two tokens give the same float exactly     *)
(* when they give the same pair (true of IEEE doubles for the short tokens *)
(* used here).                                                             *)
(***************************************************************************)
EXTENDS Integers, Sequences, FiniteSets, TLC

VARIABLES
    \* ---- phenixrefine: one invocation at a time, statement by statement
    pc,          \* position in phenixrefine ("idle" before a call, "done" after it)
    calls,       \* invocations started so far
    phenix_params, \* the PhenixParams record passed to the call
    host,        \* the host environment: the caller's privilege, whether phenix.refine is on PATH, what is at /Users/tjlane/Desktop before the first call
    tmproot,     \* the temporary-file root: directory name -> its files, or Absent
    tmpdir,      \* the directory of the running invocation, or NoDir
    hostfiles,   \* the entries at the destination of line 86: path -> a file (content, owner, mode), a directory, or nothing
    cmd,         \* the local cmd (line 74), << >> before it is built
    process_return, \* the CompletedProcess of line 76, or None
    locals,      \* the locals structure, mtz_dataset, stats as they are assigned
    exc,         \* the exception propagating out of the with block, or None
    outcome,     \* how the call ended: a return value or a raised exception
    \* ---- observation of one invocation (history)
    ran,         \* the subprocess.run calls made: [cmd, cwd], with the files and the log the program left
    written,     \* the input files written, in order
    touched,     \* the output files checked, copied or read
    created,     \* the temporary directories the invocations created
    \* ---- inputs of the pure functions
    fields,      \* the labelled fields an input text is assembled from
    lines,       \* the log lines an input text is assembled from
    sep,         \* what the writer of an input text puts between a label and its value
    text,        \* the input text of extract_r_values
    logfile,     \* the file read_from_log was applied to, or None
    called,      \* the function under test that was applied, "" before
    result,      \* what the function under test gave, or None
    macrocycles  \* the number_of_macrocycles of the record under test

vars == <<pc, calls, phenix_params, host, tmproot, tmpdir, hostfiles, cmd,
          process_return, locals, exc, outcome, ran, written, touched, created,
          fields, lines, sep, text, logfile, called, result, macrocycles>>

refineVars == <<pc, calls, phenix_params, host, tmproot, tmpdir, hostfiles, cmd,
                process_return, locals, exc, outcome, ran, written, touched, created>>

\* "nothing yet", for the variables that hold a record
None == [kind |-> "none"]
NoDir == "NoDir"

-----------------------------------------------------------------------------
(* Bounds *)

MaxFields == 3      \* labelled fields in a generated text
MaxLines == 3       \* lines in a generated log
MaxCycles == 60     \* |number_of_macrocycles| of a generated parameter record
MaxCalls == 2       \* invocations of phenixrefine in one run
MaxDirs == 2        \* directory names the temporary root can hand out

-----------------------------------------------------------------------------
(* PhenixParams *)

DefaultMacrocycles == 3

Digit(d) == CASE d = 0 -> "0" [] d = 1 -> "1" [] d = 2 -> "2" [] d = 3 -> "3"
              [] d = 4 -> "4" [] d = 5 -> "5" [] d = 6 -> "6" [] d = 7 -> "7"
              [] d = 8 -> "8" [] d = 9 -> "9"

RECURSIVE NatStr(_)
NatStr(n) == IF n < 10 THEN Digit(n) ELSE NatStr(n \div 10) \o Digit(n % 10)

\* str(n) of a Python int, as the f-string of line 22 formats it
IntStr(n) == IF n < 0 THEN "-" \o NatStr(-n) ELSE NatStr(n)

PhenixParams(n) == [number_of_macrocycles |-> n]

formatDropsValue(self) == <<"main.number_of_macro_cycles=">>

format(self) == <<"main.number_of_macro_cycles=" \o IntStr(self.number_of_macrocycles)>>

-----------------------------------------------------------------------------
(* RefinementStats.extract_r_values: the regular expression                *)
(*   R-work\s*=\s*([0-9.]+).*?R-free\s*=\s*([0-9.]+)                       *)
(* searched with re.search (leftmost match, no flags: '.' stops at "\n").  *)

RWORK == <<"R", "-", "w", "o", "r", "k">>
RFREE == <<"R", "-", "f", "r", "e", "e">>

Digits == {"0", "1", "2", "3", "4", "5", "6", "7", "8", "9"}

\* the characters U+000B, U+001C..U+001F, U+0085 and U+00A0, which have no
\* escape in a string: each string below holds the character itself
VT == ""
FS == ""
GS == ""
RS == ""
US == ""
NEL == ""
NBSP == " "

\* \s on a str matches the characters c with c.isspace(): the six ASCII
\* spaces, the separators U+001C..U+001F, NEL, NBSP and the Unicode spaces
AsciiSpaces == {" ", "\t", "\n", "\r", "\f", VT}
Separators == {FS, GS, RS, US}
Latin1Spaces == {NEL, NBSP}
UnicodeSpaces == {"\\u1680", "\\u2000", "\\u2001", "\\u2002", "\\u2003", "\\u2004",
                  "\\u2005", "\\u2006", "\\u2007", "\\u2008", "\\u2009", "\\u200a",
                  "\\u2028", "\\u2029", "\\u202f", "\\u205f", "\\u3000"}
SpaceChars == AsciiSpaces \cup Separators \cup Latin1Spaces \cup UnicodeSpaces

\* [0-9.]
NumChars == Digits \cup {"."}

HasLiteral(t, i, lit) ==
    /\ i + Len(lit) - 1 <= Len(t)
    /\ \A k \in 1..Len(lit) : t[i + k - 1] = lit[k]

\* The element of a singleton. The({e(x) : x \in {v}}) is e with x naming
\* the value of v, computed once.
The(S) == CHOOSE x \in S : TRUE

\* a greedy run: the position after the longest run of characters of S from i on
RECURSIVE RunEnd(_, _, _)
RunEnd(t, i, S) ==
    IF i > Len(t) \/ t[i] \notin S THEN i ELSE RunEnd(t, i + 1, S)

\* lit\s*=\s* at i: the position after it, or 0. Each \s* is greedy and is
\* followed by something no space matches, so only the longest run can match.
LabelEnd(t, i, lit) ==
    IF ~HasLiteral(t, i, lit) THEN 0
    ELSE The({IF a <= Len(t) /\ t[a] = "=" THEN RunEnd(t, a + 1, SpaceChars) ELSE 0 :
                a \in {RunEnd(t, i + Len(lit), SpaceChars)}})

\* R-free\s*=\s*([0-9.]+) at k, the end of the pattern: group 2 is the
\* longest run of digits and dots; <<first, last>> of it, or << >>
TailAt(t, k) ==
    The({IF a = 0 THEN << >>
         ELSE The({IF e = a THEN << >> ELSE <<a, e - 1>> : e \in {RunEnd(t, a, NumChars)}}) :
           a \in {LabelEnd(t, k, RFREE)}})

DotMatchesNewlineToo(c) == TRUE

\* '.' without re.DOTALL
DotMatches(c) == c # "\n"

Min(S) == CHOOSE x \in S : \A y \in S : x <= y
Max(S) == CHOOSE x \in S : \A y \in S : y <= x

\* .*?<tail> from e on: the lazy quantifier takes the shortest stretch of
\* non-newline characters after which the tail matches; the position where
\* the tail then starts, or 0 if there is none
LazyStop(t, e) ==
    The({IF ok = {} THEN 0 ELSE Min(ok) :
           ok \in {{k \in e..Len(t) : /\ TailAt(t, k) # << >>
                                      /\ \A x \in e..(k - 1) : DotMatches(t[x])}}})

\* ([0-9.]+) is greedy: of a run from a that can end at e, it ends at the
\* last end after which the rest of the pattern matches (backtracking one
\* character at a time); 0 if there is none
RECURSIVE GreedyEnd(_, _, _)
GreedyEnd(t, a, e) ==
    IF e <= a THEN 0
    ELSE IF LazyStop(t, e) # 0 THEN e
    ELSE The({GreedyEnd(t, a, x) : x \in {e - 1}})

\* the whole pattern anchored at i: <<g1first, g1last, g2first, g2last>>,
\* or << >>
MatchAt(t, i) ==
    The({IF a = 0 THEN << >>
         ELSE The({IF e = 0 THEN << >>
                   ELSE The({<<a, e - 1, g2[1], g2[2]>> :
                               g2 \in {The({TailAt(t, k) : k \in {LazyStop(t, e)}})}}) :
                     e \in {The({GreedyEnd(t, a, m) : m \in {RunEnd(t, a, NumChars)}})}}) :
           a \in {LabelEnd(t, i, RWORK)}})

\* the positions where the pattern matches
MatchStarts(t) == {i \in 1..Len(t) : MatchAt(t, i) # << >>}

re_search_last(t) ==
    The({IF starts = {} THEN << >> ELSE MatchAt(t, Max(starts)) :
           starts \in {MatchStarts(t)}})

\* re.search: the match at the leftmost position where the pattern matches
re_search(t) ==
    The({IF starts = {} THEN << >> ELSE MatchAt(t, Min(starts)) :
           starts \in {MatchStarts(t)}})

-----------------------------------------------------------------------------
(* float(token) for a token of digits and dots *)

DigitVal(c) == CASE c = "0" -> 0 [] c = "1" -> 1 [] c = "2" -> 2 [] c = "3" -> 3
                 [] c = "4" -> 4 [] c = "5" -> 5 [] c = "6" -> 6 [] c = "7" -> 7
                 [] c = "8" -> 8 [] c = "9" -> 9

\* float() accepts such a token iff it has a digit and at most one dot
FloatOkAnyDots(tok) == \E i \in 1..Len(tok) : tok[i] \in Digits

FloatOk(tok) ==
    /\ \E i \in 1..Len(tok) : tok[i] \in Digits
    /\ Cardinality({i \in 1..Len(tok) : tok[i] = "."}) <= 1

RECURSIVE DigitsValue(_)
DigitsValue(ds) ==
    IF ds = << >> THEN 0
    ELSE 10 * DigitsValue(SubSeq(ds, 1, Len(ds) - 1)) + DigitVal(ds[Len(ds)])

RECURSIVE Normalize(_, _)
Normalize(n, k) == IF k > 0 /\ n % 10 = 0 THEN Normalize(n \div 10, k - 1) ELSE <<n, k>>

\* the value of an accepted token: n / 10^k
float(tok) ==
    LET dots == {i \in 1..Len(tok) : tok[i] = "."}
        k == IF dots = {} THEN 0 ELSE Len(tok) - (CHOOSE i \in dots : TRUE)
        ds == SelectSeq(tok, LAMBDA c : c # ".")
    IN Normalize(DigitsValue(ds), k)

Return(v) == [kind |-> "return", value |-> v]
Raise(e, m) == [kind |-> "raise", exc |-> e, msg |-> m]

NotFoundMsg == "R values not found in the text."
FloatMsg == "could not convert string to float"

\* lines 36-38 on the two groups of a match
r_values(g1, g2) ==
    IF ~FloatOk(g1) \/ ~FloatOk(g2)
    THEN Raise("ValueError", FloatMsg)
    ELSE Return(<<float(g1), float(g2)>>)

extract_r_values(t) ==
    The({IF match # << >>
         THEN The({r_values(g1, g2) : g1 \in {SubSeq(t, match[1], match[2])},
                                      g2 \in {SubSeq(t, match[3], match[4])}})
         ELSE Raise("ValueError", NotFoundMsg) :
           match \in {re_search(t)}})

RefinementStats(w, f) == [r_work |-> w, r_free |-> f]

\* What a path holds: nothing, or a file. The content of a file that decodes
\* in the locale's encoding is the characters it decodes to, line ends as
\* they are stored; writable is the write bit of its mode.
Missing == [kind |-> "missing"]
TextFile(t) == [kind |-> "text", chars |-> t, writable |-> TRUE]
UndecodableFile == [kind |-> "undecodable", writable |-> TRUE]
ReadOnly(f) == [f EXCEPT !.writable = FALSE]

\* text mode with newline=None: "\r\n" and a lone "\r" are read as "\n"
RECURSIVE universal_newlines(_)
universal_newlines(s) ==
    IF s = << >> THEN << >>
    ELSE IF Head(s) = "\r"
         THEN <<"\n">> \o universal_newlines(IF Len(s) >= 2 /\ s[2] = "\n"
                                              THEN SubSeq(s, 3, Len(s))
                                              ELSE Tail(s))
         ELSE <<Head(s)>> \o universal_newlines(Tail(s))

\* Path.read_text(), line 44: open in text mode, decode, translate line ends
read_text(file) ==
    IF file.kind = "text" THEN Return(universal_newlines(file.chars))
    ELSE IF file.kind = "missing" THEN Raise("FileNotFoundError", "logfile")
    ELSE Raise("UnicodeDecodeError", "logfile")

\* lines 45-49 on the text read
stats_of(logtext) ==
    The({IF r.kind = "return"
         THEN Return(RefinementStats(r.value[1], r.value[2]))
         ELSE r :
           r \in {extract_r_values(logtext)}})

read_from_log(file) ==
    The({IF rt.kind = "return" THEN stats_of(rt.value) ELSE rt :
           rt \in {read_text(file)}})

-----------------------------------------------------------------------------
(* Input texts of extract_r_values, assembled from labelled fields          *)
(* "<label><separator><value><terminator>".                                *)

EQ == <<" ", "=", " ">>
\* a separator of other spaces: form feed and tab before "=", a no-break
\* space and an ideographic space after it
WIDE_EQ == <<"\f", "\t", "=", NBSP, "\\u3000">>
Seps == {EQ, WIDE_EQ}
COMMA == <<",", " ">>
NEWLINE == <<"\n">>

V025 == <<"0", ".", "2", "5">>
V03 == <<"0", ".", "3">>
V123 == <<"1", ".", "2", ".", "3">>
VNEG == <<"-", "1">>

Labels == {RWORK, RFREE}
Values == {V025, V03, V123, VNEG}
Terminators == {COMMA, NEWLINE}

Field == [label : Labels, value : Values, term : Terminators]

Render(f, s) == f.label \o s \o f.value \o f.term

\* nothing assembled, nothing called; the writer's separator is one of seps
InitText(seps) ==
    /\ fields = << >>
    /\ lines = << >>
    /\ sep \in seps
    /\ text = << >>
    /\ logfile = None
    /\ called = ""
    /\ result = None
    /\ macrocycles = DefaultMacrocycles

InitPure == InitText({EQ})

\* one more field of the caller's text
AppendField ==
    \E f \in Field :
        /\ called = ""
        /\ Len(fields) < MaxFields
        /\ fields' = Append(fields, f)
        /\ text' = text \o Render(f, sep)
        /\ UNCHANGED <<lines, sep, logfile, called, result, macrocycles, refineVars>>

\* RefinementStats.extract_r_values(text)
CallExtract ==
    /\ called = ""
    /\ called' = "extract_r_values"
    /\ result' = extract_r_values(text)
    /\ UNCHANGED <<fields, lines, sep, text, logfile, macrocycles, refineVars>>


-----------------------------------------------------------------------------
(* Log texts, assembled from lines that report R-work, R-free, both (in    *)
(* that order, as phenix.refine prints them) or neither.                   *)

NoValue == << >>
LineValues == {V025, V03, NoValue}
LogLine == [w : LineValues, f : LineValues]

RenderLine(l) ==
    (IF l.w = NoValue THEN << >> ELSE RWORK \o EQ \o l.w)
    \o (IF l.w # NoValue /\ l.f # NoValue THEN COMMA ELSE << >>)
    \o (IF l.f = NoValue THEN << >> ELSE RFREE \o EQ \o l.f)
    \o NEWLINE

\* one more line of the log file
AppendLine ==
    \E l \in LogLine :
        /\ called = ""
        /\ Len(lines) < MaxLines
        /\ lines' = Append(lines, l)
        /\ text' = text \o RenderLine(l)
        /\ UNCHANGED <<fields, sep, logfile, called, result, macrocycles, refineVars>>

CR == <<"\r">>
CRLF == <<"\r", "\n">>
LineEnds == {NEWLINE, CR, CRLF}

\* the characters a file holds when text is stored with line end nl
RECURSIVE StoredWith(_, _)
StoredWith(t, nl) ==
    IF t = << >> THEN << >>
    ELSE (IF Head(t) = "\n" THEN nl ELSE <<Head(t)>>) \o StoredWith(Tail(t), nl)

\* RefinementStats.read_from_log(logfile), the file holding text in one of
\* the line-end conventions
CallReadFromLog ==
    \E nl \in LineEnds :
    \E file \in {TextFile(StoredWith(text, nl))} :
        /\ called = ""
        /\ called' = "read_from_log"
        /\ logfile' = file
        /\ result' = read_from_log(file)
        /\ UNCHANGED <<fields, lines, sep, text, macrocycles, refineVars>>


-----------------------------------------------------------------------------
(* PhenixParams records and PhenixParams.format *)

\* PhenixParams(number_of_macrocycles=n)
Construct ==
    \E n \in (-MaxCycles)..MaxCycles :
        /\ called = ""
        /\ macrocycles' = n
        /\ UNCHANGED <<fields, lines, sep, text, logfile, called, result, refineVars>>

\* PhenixParams(): the field takes its default
ConstructDefault ==
    /\ called = ""
    /\ macrocycles' = DefaultMacrocycles
    /\ UNCHANGED <<fields, lines, sep, text, logfile, called, result, refineVars>>

\* PhenixParams.format(self): builds the list from the field, assigns nothing
CallFormat ==
    /\ called = ""
    /\ called' = "format"
    /\ result' = Return(format(PhenixParams(macrocycles)))
    /\ UNCHANGED <<fields, lines, sep, text, logfile, macrocycles, refineVars>>


-----------------------------------------------------------------------------
(* phenixrefine: the files and the host *)

INPUT_MTZ == "input.mtz"
INPUT_PDB == "input.pdb"
REFINED_PDB == "input_refine_001.pdb"
REFINED_MTZ == "input_refine_001.mtz"
REFINED_LOG == "input_refine_001.log"

InputNames == {INPUT_MTZ, INPUT_PDB}
OutputNames == {REFINED_PDB, REFINED_MTZ, REFINED_LOG}
FileNames == InputNames \cup OutputNames

\* the destination of line 86 and the file it makes when that is a directory
DESKTOP == "/Users/tjlane/Desktop"
DESKTOP_LOG == "/Users/tjlane/Desktop/input_refine_001.log"
HostPaths == {DESKTOP, DESKTOP_LOG}

EmptyFiles == [f \in FileNames |-> Missing]

MtzFile(d) == [kind |-> "mtz", data |-> d]
PdbFile(d) == [kind |-> "pdb", data |-> d]

AbsentDir == [exists |-> FALSE, files |-> EmptyFiles]

\* a directory some earlier program left in the temporary root
StaleDir == [exists |-> TRUE,
             files |-> [EmptyFiles EXCEPT ![REFINED_LOG] = TextFile(RFREE \o EQ \o V03)]]

DirNames == 1..MaxDirs

\* An entry at the destination of line 86: a file (what it holds, whose it
\* is, whether its mode lets the caller write it: the owner's write bit for
\* the caller's own file and for a privileged caller, the others' write bit
\* for an unprivileged caller of another user's file), a directory, or nothing
Content(f) == IF f.kind = "text" THEN [kind |-> "text", chars |-> f.chars]
              ELSE [kind |-> f.kind]
HostFile(f, o, w) == [kind |-> "file", content |-> Content(f), owner |-> o, writable |-> w]
Directory == [kind |-> "directory"]

Owners == {"caller", "other"}

\* what a file that is at the destination before the first call holds
OldLog == TextFile(RWORK \o EQ \o V03)
OldFiles == {HostFile(OldLog, o, w) : o \in Owners, w \in BOOLEAN}

NoFiles == [q \in HostPaths |-> Missing]

\* The host of a call:
\*   root            the caller is privileged: no permission check fails
\*   phenix_on_path  phenix.refine is found on PATH
\*   home            /Users/tjlane is "absent", or a directory in which the
\*                   caller may ("writable") or may not ("read_only") create
\*                   entries
\*   desktop_dir     /Users/tjlane/Desktop is a directory in which the caller
\*                   may ("writable") or may not ("read_only") create
\*                   entries, or is no directory ("none")
\*   files           the entries at the destination before the first call
HostRecords ==
    [root : BOOLEAN, phenix_on_path : BOOLEAN,
     home : {"absent", "writable", "read_only"},
     desktop_dir : {"none", "writable", "read_only"},
     files : [HostPaths -> {Missing, Directory} \cup OldFiles]]

\* Nothing is below a directory that is not there; Desktop is a directory or
\* a file or absent. (The mode of /Users/tjlane plays no part once Desktop is
\* a directory: it is "writable" then.)
WellFormed(h) ==
    /\ h.home = "absent" => h.desktop_dir = "none" /\ h.files = NoFiles
    /\ h.desktop_dir = "none" =>
          h.files[DESKTOP] # Directory /\ h.files[DESKTOP_LOG] = Missing
    /\ h.desktop_dir # "none" =>
          h.files[DESKTOP] = Missing /\ h.home = "writable"

Hosts == {h \in HostRecords : WellFormed(h)}

\* the hosts with no entry at the destination, for an unprivileged caller
\* (SpecHosts has the privileged caller and the other destinations)
CleanHosts == {h \in Hosts : h.files = NoFiles /\ ~h.root}

PlainHost == [root |-> FALSE, phenix_on_path |-> TRUE, home |-> "writable",
              desktop_dir |-> "writable", files |-> NoFiles]

\* exit statuses of the external program
ReturnCodes == {0, 1, 2}

\* log files phenix.refine may leave: one pair; two pairs; a token that is
\* no number; one pair stored with "\r\n"; the two fields on lines of their
\* own ended by "\r"; a pair written with other spaces; one pair in a file
\* without the write bit; bytes that do not decode
LogTexts == {
    RenderLine([w |-> V025, f |-> V03]),
    RenderLine([w |-> V03, f |-> V03]) \o RenderLine([w |-> V025, f |-> V025]),
    RWORK \o EQ \o V123 \o COMMA \o RFREE \o EQ \o V03,
    StoredWith(RenderLine([w |-> V03, f |-> V025]), CRLF),
    RWORK \o EQ \o V025 \o CR \o RFREE \o EQ \o V03,
    RWORK \o WIDE_EQ \o V025 \o COMMA \o RFREE \o WIDE_EQ \o V025 }

LogFiles ==
    {TextFile(t) : t \in LogTexts}
    \cup {ReadOnly(TextFile(RenderLine([w |-> V03, f |-> V025]))), UndecodableFile}

\* shutil.copy(src, dst): a dst that is a directory stands for the file of
\* src's name in it (os.path.isdir, os.path.join)
copy_target(h) == IF h.desktop_dir # "none" THEN DESKTOP_LOG ELSE DESKTOP

\* the caller may create an entry in the directory the target is in
may_create(h) ==
    \/ h.root
    \/ IF h.desktop_dir # "none" THEN h.desktop_dir = "writable" ELSE h.home = "writable"

\* shutil.copyfile, open(dst, "wb") with the source open: the error it
\* raises, or None
copyfile_error(h, files) ==
    The({IF h.home = "absent" THEN Raise("FileNotFoundError", DESKTOP)
         ELSE IF files[p] = Directory THEN Raise("IsADirectoryError", p)
         ELSE IF files[p] = Missing
              THEN (IF may_create(h) THEN None ELSE Raise("PermissionError", p))
         ELSE IF h.root \/ files[p].writable THEN None
         ELSE Raise("PermissionError", p) :
           p \in {copy_target(h)}})

\* whose the target is once it is open: a file that was not there is made
\* the caller's
target_owner(h, files) ==
    IF files[copy_target(h)] = Missing THEN "caller" ELSE files[copy_target(h)].owner

\* shutil.copymode, after the content is written: os.chmod of a file that is
\* not the caller's fails unless the caller is privileged; the error, or None
copymode_error(h, files) ==
    IF h.root \/ target_owner(h, files) = "caller" THEN None
    ELSE Raise("PermissionError", copy_target(h))

\* the entries after copyfile has written src to the target and, moded,
\* after copymode has given it the mode of src. Before copymode a target
\* that was there keeps its mode, and one that open(dst, "wb") has made is
\* the caller's to write, whatever the mode of src
copied(h, files, src, moded) ==
    [files EXCEPT ![copy_target(h)] =
        HostFile(src, target_owner(h, files),
                 IF moded THEN src.writable
                 ELSE IF files[copy_target(h)] = Missing THEN TRUE
                 ELSE files[copy_target(h)].writable)]

ParamChoices == {PhenixParams(DefaultMacrocycles), PhenixParams(1)}

NoLocals == [structure |-> None, mtz_dataset |-> None, stats |-> None]

CalledProcessError(rc, c) ==
    [kind |-> "raise", exc |-> "CalledProcessError", returncode |-> rc, cmd |-> c]

CompletedProcess(c, rc) == [kind |-> "completed", args |-> c, returncode |-> rc]

\* gemmi.read_structure and rs.read_mtz: the object parsed from a file
read_structure(file) == [kind |-> "Structure", of |-> file.data]
read_mtz(file) == [kind |-> "DataSet", of |-> file.data]

Exists(d, name) == tmproot[d].files[name] # Missing

WriteIn(root, d, name, content) ==
    [root EXCEPT ![d].files[name] = content]

\* tempfile.mkdtemp: a name that is not in use
mkdtemp_anyname(root) == DirNames

mkdtemp_names(root) == {d \in DirNames : ~root[d].exists}

\* leaving the with block without removing the directory
cleanup_never(root, d) == root

\* TemporaryDirectory.__exit__: the directory and what it holds are removed
cleanup(root, d) == [root EXCEPT ![d] = AbsentDir]

cmd_swapped(params) == <<"phenix.refine", INPUT_MTZ, INPUT_PDB>> \o format(params)

\* line 74
build_cmd(params) == <<"phenix.refine", INPUT_PDB, INPUT_MTZ>> \o format(params)

returncode_unchecked(rc) == FALSE

\* line 79
returncode_fails(rc) == rc # 0

\* the temporary root before any call: at most one directory is in it, left
\* by an earlier program
TmpRoots ==
    {r \in [DirNames -> {AbsentDir, StaleDir}] :
        Cardinality({d \in DirNames : r[d].exists}) <= 1}

\* no call made yet, on one of hosts
InitOn(hosts) ==
    /\ pc = "idle"
    /\ calls = 0
    /\ phenix_params = PhenixParams(DefaultMacrocycles)
    /\ host \in hosts
    /\ tmproot \in TmpRoots
    /\ tmpdir = NoDir
    /\ hostfiles = host.files
    /\ cmd = << >>
    /\ process_return = None
    /\ locals = NoLocals
    /\ exc = None
    /\ outcome = None
    /\ ran = << >>
    /\ written = << >>
    /\ touched = {}
    /\ created = {}

InitRefine == InitOn(CleanHosts)

pureVars == <<fields, lines, sep, text, logfile, called, result, macrocycles>>

\* an exception leaves the with block
Fail(e) ==
    /\ exc' = e
    /\ pc' = "exit"

\* lines 52-61: a call, with the caller's parameter record
Call ==
    \E p \in ParamChoices :
        /\ pc \in {"idle", "done"}
        /\ calls < MaxCalls
        /\ calls' = calls + 1
        /\ phenix_params' = p
        /\ pc' = "enter"
        /\ cmd' = << >>
        /\ process_return' = None
        /\ locals' = NoLocals
        /\ exc' = None
        /\ outcome' = None
        /\ ran' = << >>
        /\ written' = << >>
        /\ touched' = {}
        /\ created' = {}
        /\ UNCHANGED <<host, tmproot, tmpdir, hostfiles, pureVars>>

\* lines 62-63: with tempfile.TemporaryDirectory() as tmpdir
EnterTmpdir ==
    \E d \in mkdtemp_names(tmproot) :
        /\ pc = "enter"
        /\ tmproot' = [tmproot EXCEPT ![d].exists = TRUE]
        /\ tmpdir' = d
        /\ created' = created \cup {d}
        /\ pc' = "write_mtz"
        /\ UNCHANGED <<calls, phenix_params, host, hostfiles, cmd, process_return,
                       locals, exc, outcome, ran, written, touched, pureVars>>

\* lines 65-70: refinement_data.write_mtz(tmpdir/input.mtz)
WriteMtz ==
    /\ pc = "write_mtz"
    /\ tmproot' = WriteIn(tmproot, tmpdir, INPUT_MTZ, MtzFile("input"))
    /\ written' = Append(written, INPUT_MTZ)
    /\ pc' = "write_pdb"
    /\ UNCHANGED <<calls, phenix_params, host, tmpdir, hostfiles, cmd, process_return,
                   locals, exc, outcome, ran, touched, created, pureVars>>

\* line 72: structure.write_pdb(tmpdir/input.pdb)
WritePdb ==
    /\ pc = "write_pdb"
    /\ tmproot' = WriteIn(tmproot, tmpdir, INPUT_PDB, PdbFile("input"))
    /\ written' = Append(written, INPUT_PDB)
    /\ pc' = "build_cmd"
    /\ UNCHANGED <<calls, phenix_params, host, tmpdir, hostfiles, cmd, process_return,
                   locals, exc, outcome, ran, touched, created, pureVars>>

\* line 74
BuildCmd ==
    /\ pc = "build_cmd"
    /\ cmd' = build_cmd(phenix_params)
    /\ pc' = "run"
    /\ UNCHANGED <<calls, phenix_params, host, tmproot, tmpdir, hostfiles, process_return,
                   locals, exc, outcome, ran, written, touched, created, pureVars>>

\* lines 76-77, the executable not found: subprocess.run raises
RunNotFound ==
    /\ pc = "run"
    /\ ~host.phenix_on_path
    /\ Fail(Raise("FileNotFoundError", "phenix.refine"))
    /\ UNCHANGED <<calls, phenix_params, host, tmproot, tmpdir, hostfiles, cmd,
                   process_return, locals, outcome, ran, written, touched, created, pureVars>>

\* lines 76-77: subprocess.run(cmd, cwd=tmpdir, check=False) waits for the
\* program, which exits with some status having left some of its output
\* files in its working directory
RunProcess ==
    \E rc \in ReturnCodes, outs \in SUBSET OutputNames, log \in LogFiles \cup {Missing} :
        /\ pc = "run"
        /\ host.phenix_on_path
        /\ REFINED_LOG \in outs <=> log # Missing
        /\ tmproot' = [tmproot EXCEPT ![tmpdir].files =
               [f \in FileNames |->
                   IF f \notin outs THEN @[f]
                   ELSE IF f = REFINED_PDB THEN PdbFile("refined")
                   ELSE IF f = REFINED_MTZ THEN MtzFile("refined")
                   ELSE log]]
        /\ process_return' = CompletedProcess(cmd, rc)
        /\ ran' = Append(ran, [cmd |-> cmd, cwd |-> tmpdir, left |-> outs, log |-> log])
        /\ pc' = "check"
        /\ UNCHANGED <<calls, phenix_params, host, tmpdir, hostfiles, cmd,
                       locals, exc, outcome, written, touched, created, pureVars>>

\* lines 79-80
CheckReturn ==
    /\ pc = "check"
    /\ IF returncode_fails(process_return.returncode)
       THEN Fail(CalledProcessError(process_return.returncode, cmd))
       ELSE pc' = "copy" /\ exc' = exc
    /\ UNCHANGED <<calls, phenix_params, host, tmproot, tmpdir, hostfiles, cmd,
                   process_return, locals, outcome, ran, written, touched, created, pureVars>>

\* lines 82-86: shutil.copy(tmpdir/input_refine_001.log, "/Users/tjlane/Desktop"):
\* copyfile opens the source, then the target, and writes the content;
\* copymode then sets the target's mode
CopyLog ==
    /\ pc = "copy"
    /\ touched' = touched \cup {REFINED_LOG}
    /\ IF ~Exists(tmpdir, REFINED_LOG)
       THEN Fail(Raise("FileNotFoundError", REFINED_LOG)) /\ hostfiles' = hostfiles
       ELSE IF copyfile_error(host, hostfiles) # None
       THEN Fail(copyfile_error(host, hostfiles)) /\ hostfiles' = hostfiles
       ELSE IF copymode_error(host, hostfiles) # None
       THEN /\ hostfiles' = copied(host, hostfiles, tmproot[tmpdir].files[REFINED_LOG], FALSE)
            /\ Fail(copymode_error(host, hostfiles))
       ELSE /\ hostfiles' = copied(host, hostfiles, tmproot[tmpdir].files[REFINED_LOG], TRUE)
            /\ pc' = "assert_pdb" /\ exc' = exc
    /\ UNCHANGED <<calls, phenix_params, host, tmproot, tmpdir, cmd, process_return,
                   locals, outcome, ran, written, created, pureVars>>

AssertExists(at, name, next) ==
    /\ pc = at
    /\ touched' = touched \cup {name}
    /\ IF Exists(tmpdir, name)
       THEN pc' = next /\ exc' = exc
       ELSE Fail(Raise("AssertionError", name))
    /\ UNCHANGED <<calls, phenix_params, host, tmproot, tmpdir, hostfiles, cmd,
                   process_return, locals, outcome, ran, written, created, pureVars>>

\* line 88
AssertPdb == AssertExists("assert_pdb", REFINED_PDB, "assert_mtz")
\* line 89
AssertMtz == AssertExists("assert_mtz", REFINED_MTZ, "assert_log")
\* line 90
AssertLog == AssertExists("assert_log", REFINED_LOG, "read_pdb")

\* line 92
ReadStructure ==
    /\ pc = "read_pdb"
    /\ touched' = touched \cup {REFINED_PDB}
    /\ locals' = [locals EXCEPT !.structure = read_structure(tmproot[tmpdir].files[REFINED_PDB])]
    /\ pc' = "read_mtz"
    /\ UNCHANGED <<calls, phenix_params, host, tmproot, tmpdir, hostfiles, cmd,
                   process_return, exc, outcome, ran, written, created, pureVars>>

\* line 93
ReadMtz ==
    /\ pc = "read_mtz"
    /\ touched' = touched \cup {REFINED_MTZ}
    /\ locals' = [locals EXCEPT !.mtz_dataset = read_mtz(tmproot[tmpdir].files[REFINED_MTZ])]
    /\ pc' = "read_log"
    /\ UNCHANGED <<calls, phenix_params, host, tmproot, tmpdir, hostfiles, cmd,
                   process_return, exc, outcome, ran, written, created, pureVars>>

\* line 94
ReadLog ==
    /\ pc = "read_log"
    /\ touched' = touched \cup {REFINED_LOG}
    /\ \E r \in {read_from_log(tmproot[tmpdir].files[REFINED_LOG])} :
          IF r.kind = "return"
          THEN /\ locals' = [locals EXCEPT !.stats = r.value]
               /\ pc' = "return" /\ exc' = exc
          ELSE Fail(r) /\ locals' = locals
    /\ UNCHANGED <<calls, phenix_params, host, tmproot, tmpdir, hostfiles, cmd,
                   process_return, outcome, ran, written, created, pureVars>>

\* line 96: the return statement leaves the with block
ReturnTriple ==
    /\ pc = "return"
    /\ pc' = "exit"
    /\ UNCHANGED <<calls, phenix_params, host, tmproot, tmpdir, hostfiles, cmd,
                   process_return, locals, exc, outcome, ran, written, touched,
                   created, pureVars>>

\* line 62, leaving the with block by return or by exception: the directory
\* is removed, then the value is returned or the exception propagates
ExitTmpdir ==
    /\ pc = "exit"
    /\ tmproot' = cleanup(tmproot, tmpdir)
    /\ tmpdir' = NoDir
    /\ outcome' = IF exc = None
                  THEN Return(<<locals.structure, locals.mtz_dataset, locals.stats>>)
                  ELSE exc
    /\ pc' = "done"
    /\ UNCHANGED <<calls, phenix_params, host, hostfiles, cmd, process_return,
                   locals, exc, ran, written, touched, created, pureVars>>

Next ==
    \/ Call \/ EnterTmpdir \/ WriteMtz \/ WritePdb \/ BuildCmd
    \/ RunNotFound \/ RunProcess \/ CheckReturn \/ CopyLog
    \/ AssertPdb \/ AssertMtz \/ AssertLog
    \/ ReadStructure \/ ReadMtz \/ ReadLog \/ ReturnTriple \/ ExitTmpdir

Init == InitRefine /\ InitPure

Spec == Init /\ [][Next]_vars

-----------------------------------------------------------------------------
(* One call of phenixrefine on every host: a privileged or an unprivileged *)
(* caller, and a destination that holds a file or a directory already      *)

InitHosts == InitOn(Hosts) /\ InitPure

FirstCall == calls = 0 /\ Call

NextHosts ==
    \/ FirstCall \/ EnterTmpdir \/ WriteMtz \/ WritePdb \/ BuildCmd
    \/ RunNotFound \/ RunProcess \/ CheckReturn \/ CopyLog
    \/ AssertPdb \/ AssertMtz \/ AssertLog
    \/ ReadStructure \/ ReadMtz \/ ReadLog \/ ReturnTriple \/ ExitTmpdir

SpecHosts == InitHosts /\ [][NextHosts]_vars

-----------------------------------------------------------------------------
(* The functions on their own: no call of phenixrefine is running *)

InitIdle ==
    /\ InitRefine
    /\ host = PlainHost
    /\ \A d \in DirNames : ~tmproot[d].exists

InitFunctions == InitIdle /\ InitPure

\* extract_r_values on texts written with either separator
InitExtract == InitIdle /\ InitText(Seps)

NextExtract == AppendField \/ CallExtract
SpecExtract == InitExtract /\ [][NextExtract]_vars

NextLog == AppendLine \/ CallExtract \/ CallReadFromLog
SpecLog == InitFunctions /\ [][NextLog]_vars

NextFormat == Construct \/ ConstructDefault \/ CallFormat
SpecFormat == InitFunctions /\ [][NextFormat]_vars

-----------------------------------------------------------------------------
(* What the claims expect, stated without the operators of the model *)

\* the decimal numerals of up to three digits, each with its value
DecimalNumerals ==
    {<<Digit(a), a>> : a \in 0..9}
    \cup {<<Digit(a) \o Digit(b), 10 * a + b>> : a \in 1..9, b \in 0..9}
    \cup {<<Digit(a) \o Digit(b) \o Digit(c), 100 * a + 10 * b + c>> :
            a \in 1..9, b \in 0..9, c \in 0..9}

NumeralOf(n) == The({q[1] : q \in {x \in DecimalNumerals : x[2] = n}})

ExpectedFlag(n) ==
    "main.number_of_macro_cycles=" \o (IF n < 0 THEN "-" \o NumeralOf(-n) ELSE NumeralOf(n))

ExpectedCmd(n) == <<"phenix.refine", "input.pdb", "input.mtz", ExpectedFlag(n)>>

\* the numbers the value tokens of the generated texts denote
NumberOf(v) == IF v = V025 THEN <<25, 2>> ELSE <<3, 1>>
IsNumber(v) == v \in {V025, V03}
IsToken(v) == v \in {V025, V03, V123}

\* fields i < j: an R-work field and an R-free field, each with a token of
\* digits and dots
IsPair(i, j) ==
    /\ i < j
    /\ fields[i].label = RWORK /\ IsToken(fields[i].value)
    /\ fields[j].label = RFREE /\ IsToken(fields[j].value)

\* ... with no line break between the two
SameLine(i, j) == \A k \in i..(j - 1) : fields[k].term # NEWLINE

Positions == 1..Len(fields)
LinePairs == {p \in Positions \X Positions : IsPair(p[1], p[2]) /\ SameLine(p[1], p[2])}

\* the leftmost R-work field that has a partner on its line, and the nearest partner
FirstPair ==
    The({<<i, Min({p[2] : p \in {q \in LinePairs : q[1] = i}})>> :
           i \in {Min({p[1] : p \in LinePairs})}})

Extracted == called = "extract_r_values"

-----------------------------------------------------------------------------
(* Claims *)

\* C1: when the external command exits with a non-zero status, the call
\* raises CalledProcessError carrying that status and the command, the
\* command has been run exactly once, and no output file has been checked,
\* copied or read.
C1_NonZeroExitFails ==
    (process_return.kind = "completed" /\ process_return.returncode # 0 /\ pc # "check") =>
        /\ Len(ran) = 1
        /\ touched = {}
        /\ pc \in {"exit", "done"}
        /\ pc = "done" =>
             outcome = [kind |-> "raise", exc |-> "CalledProcessError",
                        returncode |-> process_return.returncode,
                        cmd |-> ExpectedCmd(phenix_params.number_of_macrocycles)]

C1_Witness ==
    /\ pc = "done"
    /\ outcome.kind = "raise" /\ outcome.exc = "CalledProcessError" /\ outcome.returncode = 2
    /\ ran[1].left = OutputNames

\* ValueError and the subclass of it that reading the log can raise
ValueErrors == {"ValueError", "UnicodeDecodeError"}

\* C2 (as claimed): when the command exits with status 0 and one of the
\* three output files is missing the call fails with an AssertionError, and
\* after a run of the command the call fails in no other way than
\* CalledProcessError, AssertionError or a ValueError.
C2_MissingOutputAsserts ==
    (pc = "done" /\ ran # << >>) =>
        /\ (process_return.returncode = 0 /\ ran[1].left # OutputNames) =>
              (outcome.kind = "raise" /\ outcome.exc = "AssertionError")
        /\ outcome.kind = "raise" =>
              outcome.exc \in {"CalledProcessError", "AssertionError"} \cup ValueErrors

\* the logs that report a pair on one line, each with the pair it reports first
GoodLogs ==
    {<<TextFile(RenderLine([w |-> V025, f |-> V03])), V025, V03>>,
     <<TextFile(RenderLine([w |-> V03, f |-> V03]) \o RenderLine([w |-> V025, f |-> V025])),
       V03, V03>>,
     <<TextFile(StoredWith(RenderLine([w |-> V03, f |-> V025]), CRLF)), V03, V025>>,
     <<ReadOnly(TextFile(RenderLine([w |-> V03, f |-> V025]))), V03, V025>>,
     <<TextFile(RWORK \o WIDE_EQ \o V025 \o COMMA \o RFREE \o WIDE_EQ \o V025), V025, V025>>}

\* C3 (as claimed): when the command exits with status 0, the three output
\* files exist and the log holds the R-work/R-free pattern, the call returns
\* the triple read from the three files, whatever the host.
C3_SuccessReturnsTriple ==
    (/\ pc = "done" /\ ran # << >>
     /\ process_return.returncode = 0
     /\ ran[1].left = OutputNames
     /\ \E g \in GoodLogs : ran[1].log = g[1]) =>
        /\ outcome.kind = "return"
        /\ outcome.value[1] = [kind |-> "Structure", of |-> "refined"]
        /\ outcome.value[2] = [kind |-> "DataSet", of |-> "refined"]
        /\ \E g \in GoodLogs :
              /\ ran[1].log = g[1]
              /\ outcome.value[3] = [r_work |-> NumberOf(g[2]), r_free |-> NumberOf(g[3])]

InCall == pc \notin {"idle", "enter", "done"}

\* C4: the temporary directory exists only during the invocation that made
\* it: it is there (one directory, made empty by this invocation) while the
\* body runs, and it is gone when the call has ended, however it ended.
C4_TmpdirScoped ==
    /\ InCall => /\ created = {tmpdir}
                 /\ tmproot[tmpdir].exists
    /\ pc = "write_mtz" => tmproot[tmpdir].files = EmptyFiles
    /\ ~InCall => /\ tmpdir = NoDir
                  /\ \A d \in created : ~tmproot[d].exists

C4_Witness ==
    /\ pc = "done" /\ calls = 2
    /\ outcome.kind = "raise" /\ outcome.exc = "ValueError"
    /\ \E d \in DirNames : tmproot[d] = StaleDir

\* C5 (as claimed): after the call has ended no file written by the call
\* remains outside the temporary directory: the files there are the ones
\* that were there before.
C5_NothingRemains == pc = "done" => hostfiles = host.files

\* C6 (as claimed): whenever the text has an R-work field with a number and,
\* anywhere later (also on a later line), an R-free field with a number, the
\* function returns the numbers of such a pair, in that order.
C6_AnyLaterField ==
    (/\ Extracted
     /\ \E i, j \in Positions :
           IsPair(i, j) /\ IsNumber(fields[i].value) /\ IsNumber(fields[j].value)) =>
        /\ result.kind = "return"
        /\ \E i, j \in Positions :
              /\ IsPair(i, j) /\ IsNumber(fields[i].value) /\ IsNumber(fields[j].value)
              /\ result.value = <<NumberOf(fields[i].value), NumberOf(fields[j].value)>>

\* C6 (amended): the match stays on one line. The function takes the
\* leftmost R-work token that has an R-free token later on the same line and
\* the nearest such R-free token; when both are numbers it returns exactly
\* those two, in that order; when no R-work token has an R-free token later
\* on its line, nothing is matched and it raises "R values not found".
C6_SameLinePair ==
    Extracted =>
        IF LinePairs = {}
        THEN result = [kind |-> "raise", exc |-> "ValueError", msg |-> NotFoundMsg]
        ELSE (IsNumber(fields[FirstPair[1]].value) /\ IsNumber(fields[FirstPair[2]].value)) =>
                result = [kind |-> "return",
                          value |-> <<NumberOf(fields[FirstPair[1]].value),
                                      NumberOf(fields[FirstPair[2]].value)>>]

C6_Witness ==
    /\ Extracted
    /\ sep = WIDE_EQ
    /\ Len(fields) = 3
    /\ fields[1] = [label |-> RWORK, value |-> V025, term |-> NEWLINE]
    /\ fields[2] = [label |-> RWORK, value |-> V03, term |-> COMMA]
    /\ fields[3] = [label |-> RFREE, value |-> V025, term |-> NEWLINE]
    /\ result.kind = "return"
    /\ result.value = <<<<3, 1>>, <<25, 2>>>>

\* C7: the function either raises ValueError or returns two non-negative
\* numbers; it raises ValueError when no R-work token is followed by an
\* R-free token (labels missing, reversed, or values that are no tokens of
\* digits and dots), and when a captured token is not a number.
C7_ValueErrorOrNonNegative ==
    Extracted =>
        /\ \/ result.kind = "raise" /\ result.exc = "ValueError"
           \/ /\ result.kind = "return"
              /\ \A x \in 1..2 : result.value[x][1] >= 0 /\ result.value[x][2] >= 0
        /\ (~\E i, j \in Positions : IsPair(i, j)) =>
              (result.kind = "raise" /\ result.exc = "ValueError")
        /\ (/\ LinePairs # {}
            /\ \E x \in 1..2 : ~IsNumber(fields[FirstPair[x]].value)) =>
              (result.kind = "raise" /\ result.exc = "ValueError" /\ result.msg = FloatMsg)

C7_Witness ==
    /\ Extracted
    /\ Len(fields) = 2
    /\ fields[1] = [label |-> RWORK, value |-> V025, term |-> COMMA]
    /\ fields[2].label = RFREE /\ fields[2].value = V123
    /\ result.kind = "raise" /\ result.msg = FloatMsg

\* C8: format gives exactly one token, main.number_of_macro_cycles=<n> with n
\* the record's count in decimal (3 for a record built with no argument), and
\* leaves the record as it was.
C8_FormatOneToken ==
    /\ PhenixParams(DefaultMacrocycles) = [number_of_macrocycles |-> 3]
    /\ called = "format" =>
          result = [kind |-> "return", value |-> <<ExpectedFlag(macrocycles)>>]

C8_Witness ==
    /\ called = "format"
    /\ macrocycles = -12
    /\ result.value = <<"main.number_of_macro_cycles=-12">>

\* C9: the steps of an invocation are ordered: input.mtz, then input.pdb are
\* written before the command runs; the command is phenix.refine input.pdb
\* input.mtz and the formatted flag, run once with the temporary directory
\* as its working directory; an output file is checked, copied or read only
\* after the process has exited with status 0.
C9_StepOrder ==
    /\ written \in {<< >>, <<INPUT_MTZ>>, <<INPUT_MTZ, INPUT_PDB>>}
    /\ ran # << >> =>
          /\ written = <<INPUT_MTZ, INPUT_PDB>>
          /\ Len(ran) = 1
          /\ ran[1].cmd = ExpectedCmd(phenix_params.number_of_macrocycles)
          /\ created = {ran[1].cwd}
    /\ touched # {} =>
          /\ process_return.kind = "completed"
          /\ process_return.returncode = 0

C9_Witness ==
    /\ pc = "return"
    /\ touched = OutputNames
    /\ phenix_params.number_of_macrocycles = 1

PairLines == {i \in 1..Len(lines) : lines[i].w # NoValue /\ lines[i].f # NoValue}

\* C10: when the log reports more than one R-work/R-free pair, both
\* extract_r_values on the text and read_from_log on a file that holds it
\* (with any line end) give the values of the first pair.
C10_FirstPairWins ==
    (called # "" /\ Cardinality(PairLines) >= 2) =>
        \E i \in PairLines :
            /\ \A j \in PairLines : i <= j
            /\ result.kind = "return"
            /\ called = "extract_r_values" =>
                  result.value = <<NumberOf(lines[i].w), NumberOf(lines[i].f)>>
            /\ called = "read_from_log" =>
                  result.value = [r_work |-> NumberOf(lines[i].w), r_free |-> NumberOf(lines[i].f)]

C10_Witness ==
    /\ called = "read_from_log"
    /\ logfile = TextFile(StoredWith(text, CR))
    /\ Len(lines) = 3
    /\ lines[1] = [w |-> V025, f |-> NoValue]
    /\ lines[2] = [w |-> V03, f |-> V03]
    /\ lines[3] = [w |-> V025, f |-> V025]
    /\ result.value = [r_work |-> <<3, 1>>, r_free |-> <<3, 1>>]

=============================================================================
